---- MODULE Spec2Model ----
(***************************************************************************)
(* A model of the Agent coordination core of nova-spark                    *)
(* (src/src/core/Agent.ts): the registry of named collectors, the          *)
(* start/stop lifecycle, the setInterval-driven collection cycle and the   *)
(* events the cycle publishes.                                             *)
(*                                                                         *)
(* Agent.start, Agent.stop and Agent.collect are async functions.  Each    *)
(* runs synchronously up to its first `await`, and is suspended at every   *)
(* `await collector.xxx()` until the awaited promise has settled; other    *)
(* calls run in between.  An in-flight call is a record in the bag         *)
(* `calls`; one action models the synchronous part of a call up to its     *)
(* first await (or                                                         *)
(* its return), and one action models a resumption up to the next await    *)
(* (or the return).                                                        *)
(*                                                                         *)
(* A collector is anything that implements the Collector interface.  The   *)
(* promise it returns is either already settled when the agent awaits it   *)
(* (the three collectors of the repository have no await of their own) or  *)
(* settles later (slow).  A continuation of an already settled promise is  *)
(* a microtask: the interval timer, a macrotask, cannot fire before it     *)
(* has run.                                                                *)
(***************************************************************************)
EXTENDS Integers, Sequences, FiniteSets, Bags, TLC

\* The names under which collectors get registered.
Names == {"a", "b"}

\* In-flight async calls of the agent at any one time.
MaxCalls == 2
\* Interval timers created by start() calls, those that calls in flight may
\* still create included.
MaxStarts == 2
\* Firings of interval timers (collection cycles begun).
MaxTicks == 2
\* The largest metricsBufferSize a MetricsStream is constructed with.
MaxCapacity == 3
\* Metrics in one push(metrics) call.
MaxBatch == 2
\* Metrics pushed into a MetricsStream in all.
MaxPushed == 5
\* The metric objects a caller of push() keeps a reference to: the first
\* MaxKept ones it has pushed.
MaxKept == 2
\* Readings of the clock (Date.now, process.hrtime) by the collectors.
MaxClock == 4
\* The largest maxMemorySnapshots a MemoryCollector is constructed with.
MaxSnapshots == 2
\* The calls a 'data' listener makes back into the stream during one call.
MaxReentry == 2

VARIABLES
  collectors,          \* Agent.collectors: the names, in insertion order
  registered,          \* Agent.collectors: the collector object held under a name
  cRunning,            \* per collector: its own isRunning / isStarted flag
  isRunning,           \* Agent.isRunning
  collectionInterval,  \* Agent.collectionInterval: a timer id, 0 = undefined
  timers,              \* the interval timers that are armed (setInterval ids)
  timerSeq,            \* the last timer id handed out by setInterval
  calls,               \* the in-flight async calls of the agent (a bag)
  nTicks,              \* timer firings so far
  cancelled,           \* stop() cleared the timer and no start() armed one since
  configuration,       \* the agent's Config and its caller's view of it (a record)
  stream,              \* a MetricsStream and its listener's view of it (a record)
  instances,           \* a MemoryCollector, a CpuCollector, an EventLoopCollector
  obs                  \* what the last step did (the caller's observation)

\* The agent's fields, its collectors, timers and calls in flight.
agentVars == <<collectors, registered, cRunning, isRunning, collectionInterval,
               timers, timerSeq, calls, nTicks, cancelled>>

\* The SparkConfig passed to the constructor.
ctorArg == configuration.ctorArg

\* this.config: <<the Config object>>, or <<>> if the construction failed.
config == configuration.config

\* <<the value the last getConfig() returned>>, held by the caller.
snapshot == configuration.snapshot

Configuration(arg, conf, snap) == [ctorArg |-> arg, config |-> conf, snapshot |-> snap]

\* MetricsStream.buffer
buffer == stream.buffer

\* The payloads the 'data' listener has been handed, in order.
received == stream.received

\* The number of metrics pushed into the stream so far.
nPushed == stream.nPushed

\* The ids of the metrics that clear() has discarded.
cleared == stream.cleared

\* Every call on the stream so far was a push of one metric.
singlesOnly == stream.singlesOnly

\* The caller's own metric objects: the value field of each, by metric id.
originals == stream.originals

\* The metadata objects of the caller's metrics: the unit entry of each, by
\* the id of the metric it was created for.
nested == stream.nested

Stream(buf, rcv, n, clr, singles, orig, nest) ==
  [buffer |-> buf, received |-> rcv, nPushed |-> n, cleared |-> clr,
   singlesOnly |-> singles, originals |-> orig, nested |-> nest]

configVars == configuration

streamVars == stream

collectorVars == instances

vars == <<agentVars, configVars, streamVars, collectorVars, obs>>

----------------------------------------------------------------------------
\* Errors: who created the Error object, and its message.

NoErr == [src |-> "none", msg |-> "none"]

Err(src, msg) == [src |-> src, msg |-> msg]

\* Messages a collector's start() may fail with.
StartErrMsgs == {"Start failed", "init failed"}

\* Messages a running collector's collect() may fail with.
CollectErrMsgs == {"Collection failed"}

\* Messages a collector's stop() may fail with.
StopErrMsgs == {"cleanup failed"}

NotStartedMsg == "Collector must be started before collecting metrics"

\* The batches a running collector's collect() may return.
Batches(c) == { <<>>, << <<c, 1>>, <<c, 2>> >> }

\* The settled value of a promise returned by a collector.
Res(ok, err, batch, slow) == [ok |-> ok, err |-> err, batch |-> batch, slow |-> slow]

----------------------------------------------------------------------------
\* The Collector interface, as the collectors of the repository implement it.

\* collector.start(): a no-op when running; otherwise it starts or fails.
StartOutcomes(c) ==
  IF cRunning[c]
  THEN { Res(TRUE, NoErr, <<>>, slow) : slow \in BOOLEAN }
  ELSE { Res(TRUE, NoErr, <<>>, slow) : slow \in BOOLEAN }
       \cup { Res(FALSE, Err(c, m), <<>>, slow) : m \in StartErrMsgs, slow \in BOOLEAN }

CollectorStart(c, out) ==
  IF out.ok THEN [cRunning EXCEPT ![c] = TRUE] ELSE cRunning

\* collector.stop(): a no-op when not running; otherwise it stops or fails.
StopOutcomes(c) ==
  IF ~cRunning[c]
  THEN { Res(TRUE, NoErr, <<>>, slow) : slow \in BOOLEAN }
  ELSE { Res(TRUE, NoErr, <<>>, slow) : slow \in BOOLEAN }
       \cup { Res(FALSE, Err(c, m), <<>>, slow) : m \in StopErrMsgs, slow \in BOOLEAN }

CollectorStop(c, out) ==
  IF out.ok THEN [cRunning EXCEPT ![c] = FALSE] ELSE cRunning

\* collector.collect(): rejects when not running; otherwise a batch or an error.
CollectOutcomes(c) ==
  IF ~cRunning[c]
  THEN { Res(FALSE, Err(c, NotStartedMsg), <<>>, FALSE) }
  ELSE { Res(TRUE, NoErr, b, slow) : b \in Batches(c), slow \in BOOLEAN }
       \cup { Res(FALSE, Err(c, m), <<>>, slow) : m \in CollectErrMsgs, slow \in BOOLEAN }

----------------------------------------------------------------------------
\* In-flight calls: each is suspended at `await collectors[i].xxx()`, whose
\* promise settles to `pending`.

Call(kind, i, out, metrics, log) ==
  [kind |-> kind, i |-> i, pending |-> out, metrics |-> metrics, log |-> log]

InFlight == BagToSet(calls)

HasFreeSlot == BagCardinality(calls) < MaxCalls

\* The in-flight calls other than c.
Others(c) == calls (-) SetToBag({c})

\* The in-flight calls `rest` and one more, suspended at an await.
Awaiting(rest, kind, i, out, metrics, log) ==
  rest (+) SetToBag({Call(kind, i, out, metrics, log)})

\* The calls of start() in flight: each may still create a timer.
StartsInFlight ==
  BagCardinality([c \in {d \in InFlight : d.kind = "start"} |-> CopiesIn(c, calls)])

\* A continuation of an already settled promise is queued as a microtask.
MicrotaskPending == \E c \in InFlight : ~c.pending.slow

\* What a step did: the operation ("start", "stop": a call and its synchronous
\* part; "tick": a timer firing and the synchronous part of collect();
\* "x.resume": a resumption after an await), how it ended ("pending":
\* suspended at an await), the error thrown to the caller, the collector
\* error that caused it, the events the step emitted and, at a return, the
\* call's own sequence of effects.
Obs(op, res, err, cause, emitted, log) ==
  [op |-> op, res |-> res, err |-> err, cause |-> cause,
   emitted |-> emitted, log |-> log]

\* The last step returned from a call of start() / stop() / collect().
StartReturned == obs.op \in {"start", "start.resume"} /\ obs.res \in {"ok", "throw"}

StopReturned == obs.op \in {"stop", "stop.resume"} /\ obs.res \in {"ok", "throw"}

CycleEnded == obs.op \in {"tick", "cycle.resume"} /\ obs.res \in {"ok", "error"}

\* A registry that never finds a name.
Has_Never(name) == FALSE

\* `this.collectors.has(name)`
Has(name) == \E k \in 1..Len(collectors) : collectors[k] = name

\* The collector objects a caller passes to registerCollector: 1 is the
\* first object offered under a name, 2 is another object, offered under a
\* name that is taken; 0 in the registry stands for no entry.
Objects == {1, 2}

Offered(name) == IF registered[name] = 0 THEN {1} ELSE Objects \ {registered[name]}

\* `this.collectors.set(name, collector)`: the insertion order after it (a Map
\* keeps the place of a key it already holds).
MapSetOrder(name) ==
  IF \E k \in 1..Len(collectors) : collectors[k] = name
  THEN collectors ELSE Append(collectors, name)

----------------------------------------------------------------------------
\* Config (src/src/core/Config.ts).  A SparkConfig is a function from the
\* fields the caller has given to their values; a Config object is a record
\* of its seven fields and of whether Object.freeze has been applied to it.

NumFields == <<"sampleInterval", "maxMemorySnapshots", "cpuProfilingDuration",
               "eventLoopThreshold", "metricsBufferSize">>

BoolFields == {"enabled", "debugMode"}

Fields == {NumFields[k] : k \in 1..Len(NumFields)} \cup BoolFields

Defaults ==
  [sampleInterval |-> 5000, enabled |-> TRUE, maxMemorySnapshots |-> 10,
   cpuProfilingDuration |-> 500, eventLoopThreshold |-> 100,
   metricsBufferSize |-> 1000, debugMode |-> FALSE]

\* `config.f ?? default`
Coalesce(opts, f) == IF f \in DOMAIN opts THEN opts[f] ELSE Defaults[f]

\* A constructor that leaves the object open.
Freeze_Forgotten(obj) == obj

\* `Object.freeze(this)`
Freeze(obj) == [obj EXCEPT !.frozen = TRUE]

\* NaN, the number for which every comparison is false; it stands here as
\* an integer that no field holds otherwise.
NaN == -99999

\* `v <= 0` on numbers
NotAbove0(v) == v # NaN /\ v <= 0

\* validateConfig(): the error of the first check that fails, in the order of
\* the checks.
RECURSIVE ValidateFrom(_, _)
ValidateFrom(fields, k) ==
  IF k > Len(NumFields) THEN NoErr
  ELSE IF NotAbove0(fields[NumFields[k]])
       THEN Err("Config", NumFields[k] \o " must be greater than 0")
       ELSE ValidateFrom(fields, k + 1)

ValidateConfig(fields) == ValidateFrom(fields, 1)

\* `new Config(opts)`: the object, or the error the constructor throws.
NewConfig(opts) ==
  LET fields == [f \in Fields |-> Coalesce(opts, f)]
      obj == Freeze([frozen |-> FALSE, fields |-> fields])
      err == ValidateConfig(fields)
  IN  [ok |-> err = NoErr, err |-> err, obj |-> obj]

\* `new Agent(opts)`: this.config, when the Config constructor has not thrown.
ConstructedConfig(opts) ==
  IF NewConfig(opts).ok THEN <<NewConfig(opts).obj>> ELSE <<>>

\* `new Agent()`, called with no argument.
NoOptions == <<>>

----------------------------------------------------------------------------
\* The state right after `new Agent(...)`, before any call.
AgentIdle ==
  /\ collectors = <<>>
  /\ registered = [c \in Names |-> 0]
  /\ cRunning = [c \in Names |-> FALSE]
  /\ isRunning = FALSE
  /\ collectionInterval = 0
  /\ timers = {}
  /\ timerSeq = 0
  /\ calls = EmptyBag
  /\ nTicks = 0
  /\ cancelled = FALSE

\* The state right after `new MetricsStream(config)`.
StreamIdle == stream = Stream(<<>>, <<>>, 0, {}, TRUE, <<>>, <<>>)

\* The state right after `new MemoryCollector(config)`, `new CpuCollector(config)`
\* and `new EventLoopCollector(config)`; <<>> stands for null, timer 0 for
\* undefined.  timers are the armed check timers, clock is the time.
CollectorsIdle ==
  instances = [memory |-> [isRunning |-> FALSE, snapshots |-> <<>>],
               cpu |-> [isRunning |-> FALSE, lastUsage |-> <<>>, lastTimestamp |-> <<>>],
               eventloop |-> [isRunning |-> FALSE, lastLoopTime |-> 0, checkInterval |-> 0],
               timers |-> {}, timerSeq |-> 0, clock |-> 0]

Init ==
  /\ AgentIdle
  /\ StreamIdle
  /\ CollectorsIdle
  /\ configuration = Configuration(NoOptions, ConstructedConfig(NoOptions), <<>>)
  /\ obs = Obs("new", "ok", NoErr, NoErr, <<>>, <<>>)

\* registerCollector(name, collector)
RegisterCollector(name, collector) ==
  /\ collector \in Offered(name)
  /\ IF Has(name)
     THEN /\ obs' = Obs("register", "throw", Err("Agent", "Collector already exists"),
                        NoErr, <<>>, <<>>)
          /\ UNCHANGED <<collectors, registered>>
     ELSE /\ collectors' = MapSetOrder(name)
          /\ registered' = [registered EXCEPT ![name] = collector]
          /\ obs' = Obs("register", "ok", NoErr, NoErr, <<>>, <<>>)
  /\ UNCHANGED <<cRunning, isRunning, collectionInterval, timers, timerSeq,
                 calls, nTicks, cancelled>>
  /\ UNCHANGED <<configVars, streamVars, collectorVars>>

----------------------------------------------------------------------------
\* Agent.start()

\* A start() that never returns early.
StartGuard_Never == FALSE

\* `if (this.isRunning) return;`
StartGuard == isRunning

\* A catch block that rethrows what it caught.
StartError_Rethrow(e) == e

\* `throw new Error('Start failed')` in the catch block; e is the caught error.
StartError(e) == Err("Agent", "Start failed")

\* `this.isRunning = false` in the catch block.
StartCatchFlag == FALSE

\* A catch block that stops the collectors again.
StartCatchCollectors_Rollback == [c \in Names |-> FALSE]

\* The catch block of start() calls no collector: their flags after it.
StartCatchCollectors == cRunning

\* An iteration from the last registered collector to the first.
CollectorAt_Reversed(i) == collectors[Len(collectors) + 1 - i]

\* The i-th collector of `for (const collector of this.collectors.values())`
CollectorAt(i) == collectors[i]

\* setInterval(() => this.collect(), sampleInterval): the armed timers after it.
SetInterval == timers \cup {timerSeq + 1}

\* The loop over this.collectors.values() from its i-th entry on, up to the
\* next await or up to the end of the try block.
StartFrom(rest, op, i, log) ==
  IF i > Len(collectors)
  THEN /\ isRunning' = TRUE
       /\ timers' = SetInterval
       /\ timerSeq' = timerSeq + 1
       /\ collectionInterval' = timerSeq + 1
       /\ cancelled' = FALSE
       /\ calls' = rest
       /\ obs' = Obs(op, "ok", NoErr, NoErr, <<>>,
                     log \o << <<"isRunning", "true">>, <<"setInterval", "timer">> >>)
       /\ UNCHANGED cRunning
  ELSE \E out \in StartOutcomes(CollectorAt(i)) :
       /\ cRunning' = CollectorStart(CollectorAt(i), out)
       /\ calls' = Awaiting(rest, "start", i, out, <<>>,
                            Append(log, <<"start", CollectorAt(i)>>))
       /\ obs' = Obs(op, "pending", NoErr, NoErr, <<>>, <<>>)
       /\ UNCHANGED <<isRunning, timers, timerSeq, collectionInterval, cancelled>>

\* A call of start(): its synchronous part.
AgentStart ==
  /\ IF StartGuard
     THEN /\ obs' = Obs("start", "noop", NoErr, NoErr, <<>>, <<>>)
          /\ UNCHANGED <<cRunning, isRunning, timers, timerSeq, collectionInterval,
                         cancelled, calls>>
     ELSE /\ timerSeq + StartsInFlight < MaxStarts
          /\ HasFreeSlot
          /\ StartFrom(calls, "start", 1, <<>>)
  /\ UNCHANGED <<collectors, registered, nTicks>>
  /\ UNCHANGED <<configVars, streamVars, collectorVars>>

\* start() resumes after `await collector.start()`.
StartResume(c) ==
  /\ c \in InFlight
  /\ c.kind = "start"
  /\ IF c.pending.ok
     THEN StartFrom(Others(c), "start.resume", c.i + 1,
                    Append(c.log, <<"started", CollectorAt(c.i)>>))
     ELSE /\ isRunning' = StartCatchFlag
          /\ cRunning' = StartCatchCollectors
          /\ calls' = Others(c)
          /\ obs' = Obs("start.resume", "throw", StartError(c.pending.err),
                        c.pending.err, <<>>,
                        Append(c.log, <<"isRunning", "false">>))
          /\ UNCHANGED <<timers, timerSeq, collectionInterval, cancelled>>
  /\ UNCHANGED <<collectors, registered, nTicks>>
  /\ UNCHANGED <<configVars, streamVars, collectorVars>>

----------------------------------------------------------------------------
\* Agent.stop()

\* A stop() that never returns early.
StopGuard_Never == FALSE

\* `if (!this.isRunning) return;`
StopGuard == ~isRunning

\* A stop() that forgets clearInterval.
ClearInterval_Forgotten == timers

\* `if (this.collectionInterval) clearInterval(this.collectionInterval)`
ClearInterval ==
  IF collectionInterval # 0 THEN timers \ {collectionInterval} ELSE timers

\* A catch block that rethrows what it caught.
StopError_Rethrow(e) == e

\* `throw new Error('Stop failed')` in the catch block; e is the caught error.
StopError(e) == Err("Agent", "Stop failed")

\* A catch block that gives the agent up as stopped.
StopCatchFlag_Reset == FALSE

\* The catch block of stop() assigns nothing: the flag after it.
StopCatchFlag == isRunning

\* The loop over this.collectors.values() from its i-th entry on.
StopFrom(rest, op, i, log) ==
  IF i > Len(collectors)
  THEN /\ isRunning' = FALSE
       /\ calls' = rest
       /\ obs' = Obs(op, "ok", NoErr, NoErr, <<>>, Append(log, <<"isRunning", "false">>))
       /\ UNCHANGED cRunning
  ELSE \E out \in StopOutcomes(CollectorAt(i)) :
       /\ cRunning' = CollectorStop(CollectorAt(i), out)
       /\ calls' = Awaiting(rest, "stop", i, out, <<>>,
                            Append(log, <<"stop", CollectorAt(i)>>))
       /\ obs' = Obs(op, "pending", NoErr, NoErr, <<>>, <<>>)
       /\ UNCHANGED isRunning

\* A call of stop(): its synchronous part.
AgentStop ==
  /\ IF StopGuard
     THEN /\ obs' = Obs("stop", "noop", NoErr, NoErr, <<>>, <<>>)
          /\ UNCHANGED <<cRunning, isRunning, timers, cancelled, calls>>
     ELSE /\ HasFreeSlot
          /\ timers' = ClearInterval
          /\ cancelled' = IF collectionInterval # 0 THEN TRUE ELSE cancelled
          /\ StopFrom(calls, "stop", 1,
                      IF collectionInterval # 0
                      THEN << <<"clearInterval", "timer">> >> ELSE <<>>)
  /\ UNCHANGED <<collectors, registered, timerSeq, collectionInterval, nTicks>>
  /\ UNCHANGED <<configVars, streamVars, collectorVars>>

\* stop() resumes after `await collector.stop()`.
StopResume(c) ==
  /\ c \in InFlight
  /\ c.kind = "stop"
  /\ IF c.pending.ok
     THEN StopFrom(Others(c), "stop.resume", c.i + 1,
                   Append(c.log, <<"stopped", CollectorAt(c.i)>>))
     ELSE /\ calls' = Others(c)
          /\ obs' = Obs("stop.resume", "throw", StopError(c.pending.err),
                        c.pending.err, <<>>, c.log)
          /\ isRunning' = StopCatchFlag
          /\ UNCHANGED cRunning
  /\ UNCHANGED <<collectors, registered, timers, timerSeq, collectionInterval, cancelled,
                 nTicks>>
  /\ UNCHANGED <<configVars, streamVars, collectorVars>>

----------------------------------------------------------------------------
\* Agent.collect(): the collection cycle

\* `this.emit('metrics', metrics)`
MetricsEvent(metrics) == [ch |-> "metrics", batch |-> metrics, err |-> NoErr]

\* An 'error' event that carries a new error instead of the caught one.
ErrorEvent_Wrapped(e) ==
  [ch |-> "error", batch |-> <<>>, err |-> Err("Agent", "Collection failed")]

\* `this.emit('error', error)`; e is the caught error.
ErrorEvent(e) == [ch |-> "error", batch |-> <<>>, err |-> e]

\* A publication that drops an empty batch.
EmitMetrics_SkipEmpty(metrics) ==
  IF metrics = <<>> THEN <<>> ELSE <<MetricsEvent(metrics)>>

\* `this.emit('metrics', metrics)`: the events the call publishes.
EmitMetrics(metrics) == <<MetricsEvent(metrics)>>

\* A cycle that puts each collector's metrics in front of the batch.
PushAll_Prepend(metrics, collectorMetrics) == collectorMetrics \o metrics

\* `metrics.push(...collectorMetrics)`
PushAll(metrics, collectorMetrics) == metrics \o collectorMetrics

\* How a subscriber's 'metrics' handler ends when emit() calls it.  emit()
\* calls the handlers synchronously, and what a handler throws, emit() throws.
MetricsListener == {"returns", "throws"}

\* The error a throwing 'metrics' handler raises.
ListenerError == Err("listener", "handler failed")

\* The loop over this.collectors.values() from its i-th entry on, up to the
\* next await or up to the emit that ends the try block.  The log of a cycle
\* holds, per collector asked so far, what its collect() returned.  A throw
\* of emit('metrics') is inside the try block: the catch block emits 'error'
\* with it.
CollectFrom(rest, op, i, metrics, log) ==
  /\ IF i > Len(collectors)
     THEN /\ calls' = rest
          /\ \E handler \in MetricsListener :
               obs' = IF handler = "returns"
                      THEN Obs(op, "ok", NoErr, NoErr, EmitMetrics(metrics), log)
                      ELSE Obs(op, "error", NoErr, ListenerError,
                               EmitMetrics(metrics) \o <<ErrorEvent(ListenerError)>>, log)
     ELSE \E out \in CollectOutcomes(CollectorAt(i)) :
          /\ calls' = Awaiting(rest, "cycle", i, out, metrics, log)
          /\ obs' = Obs(op, "pending", NoErr, NoErr, <<>>, <<>>)
  /\ UNCHANGED <<cRunning, isRunning, collectionInterval, timers>>

\* A catch block that shuts the agent down.
CollectCatch_Halts(c) ==
  /\ calls' = Others(c)
  /\ obs' = Obs("cycle.resume", "error", NoErr, c.pending.err,
                <<ErrorEvent(c.pending.err)>>, <<>>)
  /\ isRunning' = FALSE
  /\ timers' = {}
  /\ UNCHANGED <<cRunning, collectionInterval>>

\* The catch block of collect(): c is the call whose await has thrown.
CollectCatch(c) ==
  /\ calls' = Others(c)
  /\ obs' = Obs("cycle.resume", "error", NoErr, c.pending.err,
                <<ErrorEvent(c.pending.err)>>, <<>>)
  /\ UNCHANGED <<cRunning, isRunning, collectionInterval, timers>>

\* The interval timer t fires: `() => this.collect()`.
Tick(t) ==
  /\ t \in timers
  /\ ~MicrotaskPending
  /\ nTicks < MaxTicks
  /\ HasFreeSlot
  /\ nTicks' = nTicks + 1
  /\ CollectFrom(calls, "tick", 1, <<>>, <<>>)
  /\ UNCHANGED <<collectors, registered, timerSeq, cancelled>>
  /\ UNCHANGED <<configVars, streamVars, collectorVars>>

\* collect() resumes after `await collector.collect()`.
CollectResume(c) ==
  /\ c \in InFlight
  /\ c.kind = "cycle"
  /\ IF c.pending.ok
     THEN CollectFrom(Others(c), "cycle.resume", c.i + 1,
                      PushAll(c.metrics, c.pending.batch),
                      Append(c.log, <<CollectorAt(c.i), c.pending.batch>>))
     ELSE CollectCatch(c)
  /\ UNCHANGED <<collectors, registered, timerSeq, nTicks, cancelled>>
  /\ UNCHANGED <<configVars, streamVars, collectorVars>>

----------------------------------------------------------------------------
Next ==
  \/ \E name \in Names, collector \in Objects : RegisterCollector(name, collector)
  \/ AgentStart
  \/ \E c \in InFlight : StartResume(c)
  \/ AgentStop
  \/ \E c \in InFlight : StopResume(c)
  \/ \E t \in 1..MaxStarts : Tick(t)
  \/ \E c \in InFlight : CollectResume(c)

Spec == Init /\ [][Next]_vars

\* A call made from outside: registerCollector, start() or stop().
UserStep ==
  \/ \E name \in Names, collector \in Objects : RegisterCollector(name, collector)
  \/ AgentStart
  \/ AgentStop

\* The event loop: an armed interval timer fires when it is due, and every
\* awaited promise settles (a collector does not wait for ever) and its
\* continuation runs.  The calls made from outside come to an end.
FairSpec ==
  /\ Spec
  /\ WF_vars(\E t \in 1..MaxStarts : Tick(t))
  /\ WF_vars(\E c \in InFlight : CollectResume(c))
  /\ WF_vars(\E c \in InFlight : StartResume(c))
  /\ WF_vars(\E c \in InFlight : StopResume(c))
  /\ <>[][~UserStep]_vars

\* No call of start() or stop() is in progress.
NoLifecycleCallInFlight == \A c \in InFlight : c.kind \notin {"start", "stop"}

\* The agent under a caller that awaits each start() and stop() before its
\* next call and registers collectors only while the agent is not running.
\* The timer's cycles run in between as before.
SequentialNext ==
  \/ \E name \in Names, collector \in Objects :
        ~isRunning /\ NoLifecycleCallInFlight /\ RegisterCollector(name, collector)
  \/ NoLifecycleCallInFlight /\ AgentStart
  \/ \E c \in InFlight : StartResume(c)
  \/ NoLifecycleCallInFlight /\ AgentStop
  \/ \E c \in InFlight : StopResume(c)
  \/ \E t \in 1..MaxStarts : Tick(t)
  \/ \E c \in InFlight : CollectResume(c)

SequentialSpec == Init /\ [][SequentialNext]_vars

\* The agent under a caller that awaits each start() and stop() before its
\* next call of start() or stop(), and registers collectors at any time.
AwaitedNext ==
  \/ \E name \in Names, collector \in Objects : RegisterCollector(name, collector)
  \/ NoLifecycleCallInFlight /\ AgentStart
  \/ \E c \in InFlight : StartResume(c)
  \/ NoLifecycleCallInFlight /\ AgentStop
  \/ \E c \in InFlight : StopResume(c)
  \/ \E t \in 1..MaxStarts : Tick(t)
  \/ \E c \in InFlight : CollectResume(c)

AwaitedSpec == Init /\ [][AwaitedNext]_vars

\* AwaitedSpec under the event loop of FairSpec.
AwaitedFairSpec ==
  /\ AwaitedSpec
  /\ WF_vars(\E t \in 1..MaxStarts : Tick(t))
  /\ WF_vars(\E c \in InFlight : CollectResume(c))
  /\ WF_vars(\E c \in InFlight : StartResume(c))
  /\ WF_vars(\E c \in InFlight : StopResume(c))
  /\ <>[][~UserStep]_vars

----------------------------------------------------------------------------
\* Agent.getConfig() and the Config value it returns.  No method of the agent
\* assigns this.config and getConfig() reads nothing else, so the agent is
\* taken right after its construction, with every SparkConfig below.

\* The values a caller gives to a numeric field, next to leaving it out.
NumValues(f) == {-1, 0, Defaults[f] \div 5, NaN}

\* The SparkConfig arguments: any subset of the fields, each with a value.
SparkConfigs ==
  { [f \in given |-> full[f]] :
      given \in SUBSET Fields,
      full \in [sampleInterval : NumValues("sampleInterval"),
                enabled : BOOLEAN,
                maxMemorySnapshots : NumValues("maxMemorySnapshots"),
                cpuProfilingDuration : NumValues("cpuProfilingDuration"),
                eventLoopThreshold : NumValues("eventLoopThreshold"),
                metricsBufferSize : NumValues("metricsBufferSize"),
                debugMode : BOOLEAN] }

\* `new Agent(opts)`
ConfigInit ==
  /\ AgentIdle
  /\ StreamIdle
  /\ CollectorsIdle
  /\ \E opts \in SparkConfigs :
       configuration = Configuration(opts, ConstructedConfig(opts), <<>>)
  /\ obs = Obs("new", IF NewConfig(ctorArg).ok THEN "ok" ELSE "throw",
               NewConfig(ctorArg).err, NoErr, <<>>, <<>>)

\* The SparkConfig that getConfig() builds from the fields of this.config.
CopyOf(obj) == [f \in Fields |-> obj.fields[f]]

\* getConfig(): `return new Config({...})`
GetConfig ==
  /\ Len(config) = 1
  /\ configuration' = Configuration(ctorArg, config, <<NewConfig(CopyOf(config[1])).obj>>)
  /\ obs' = Obs("getConfig", "ok", NoErr, NoErr, <<>>, <<>>)
  /\ UNCHANGED <<agentVars, streamVars, collectorVars>>

\* `obj.f = v`: the object after the assignment.
PutValue(obj, f, v) ==
  IF obj.frozen THEN obj ELSE [obj EXCEPT !.fields[f] = v]

\* The values a caller may try to assign to a field.
FieldValues(f) == IF f \in BoolFields THEN BOOLEAN ELSE NumValues(f)

\* The caller assigns to a field of the value getConfig() returned; an
\* assignment to a frozen object throws a TypeError in strict code and is
\* ignored in sloppy code.
AssignField(f, v, strict) ==
  /\ Len(snapshot) = 1
  /\ v \in FieldValues(f)
  /\ configuration' = Configuration(ctorArg, config, <<PutValue(snapshot[1], f, v)>>)
  /\ obs' = IF snapshot[1].frozen
            THEN IF strict
                 THEN Obs("assign", "throw", Err("TypeError", "read only"), NoErr,
                          <<>>, << <<f, v>> >>)
                 ELSE Obs("assign", "ignored", NoErr, NoErr, <<>>, << <<f, v>> >>)
            ELSE Obs("assign", "ok", NoErr, NoErr, <<>>, << <<f, v>> >>)
  /\ UNCHANGED <<agentVars, streamVars, collectorVars>>

ConfigNext ==
  \/ GetConfig
  \/ \E f \in Fields \ BoolFields, v \in UNION {NumValues(g) : g \in Fields \ BoolFields},
        strict \in BOOLEAN : AssignField(f, v, strict)
  \/ \E f \in BoolFields, v \in BOOLEAN, strict \in BOOLEAN : AssignField(f, v, strict)

ConfigSpec == ConfigInit /\ [][ConfigNext]_vars

----------------------------------------------------------------------------
\* MetricsStream (src/src/streaming/MetricsStream.ts).  push, flush and clear
\* are synchronous; they are called from outside the 'data' listener, which
\* keeps every payload it is handed.

\* `new MetricsStream(new Config({ metricsBufferSize: c }))`
StreamInit ==
  /\ AgentIdle
  /\ StreamIdle
  /\ CollectorsIdle
  /\ \E c \in 1..MaxCapacity :
       configuration = Configuration([metricsBufferSize |-> c],
                                     ConstructedConfig([metricsBufferSize |-> c]), <<>>)
  /\ obs = Obs("new", "ok", NoErr, NoErr, <<>>, <<>>)

\* `this.config.metricsBufferSize`
Capacity == config[1].fields.metricsBufferSize

\* The values of a metric's value field and of its metadata's unit entry: what
\* a new metric holds, and what the caller assigns later.
Values == {100, 200}

Units == {"bytes", "percent"}

\* The n metric objects of a push call: new objects of the caller, each with
\* a metadata object of its own (metadata holds a reference to it).
NewMetrics(n) ==
  [j \in 1..n |-> [id |-> nPushed + j, value |-> 100, metadata |-> nPushed + j]]

\* The part of the n new objects the caller keeps a reference to.
KeptOf(n) == IF Len(originals) + n <= MaxKept THEN n ELSE MaxKept - Len(originals)

\* A push that stores the caller's objects themselves.
ImmutableCopy_Alias(metric) ==
  [id |-> metric.id, value |-> metric.value, metadata |-> metric.metadata,
   frozen |-> FALSE, copied |-> FALSE]

\* `Object.freeze({ ...metric })`: a new object with the fields of metric; a
\* field that holds an object (metadata) is copied as the same reference, and
\* the freeze covers the new object's own fields only.
ImmutableCopy(metric) ==
  [id |-> metric.id, value |-> metric.value, metadata |-> metric.metadata,
   frozen |-> TRUE, copied |-> TRUE]

\* What the holder of a buffered or emitted metric reads from it: its value
\* field, and the unit entry of the metadata object it refers to.
Read(metric) ==
  [id |-> metric.id,
   value |-> IF metric.copied \/ metric.id > Len(originals)
             THEN metric.value ELSE originals[metric.id],
   unit |-> IF metric.metadata <= Len(nested) THEN nested[metric.metadata] ELSE "bytes"]

\* A copy of the pushed metrics in the reverse order.
ImmutableMetrics_Reversed(metrics) ==
  [j \in 1..Len(metrics) |-> ImmutableCopy(metrics[Len(metrics) + 1 - j])]

\* `metrics.map(metric => Object.freeze({ ...metric }))`
ImmutableMetrics(metrics) == [j \in 1..Len(metrics) |-> ImmutableCopy(metrics[j])]

\* A threshold that lets the buffer fill up to the capacity.
AtCapacity_Strict(buf) == Len(buf) > Capacity

\* `this.buffer.length >= this.config.metricsBufferSize`
AtCapacity(buf) == Len(buf) >= Capacity

\* A flush that hands out the buffer itself.
FrozenCopy_Alias(buf) == [shared |-> TRUE, items |-> buf]

\* `Object.freeze([...this.buffer])`: a payload is an array of its own
\* (shared = FALSE) or the buffer array itself.
FrozenCopy(buf) == [shared |-> FALSE, items |-> buf]

\* What the holder of a payload reads from it.
View(payload) == IF payload.shared THEN buffer ELSE payload.items

\* `this.emit('data', metricsToEmit)`
DataEvent(payload) == [ch |-> "data", batch |-> payload.items, err |-> NoErr]

\* A flush that keeps what it has published.
Truncate_Forgotten(buf) == buf

\* `this.buffer.length = 0`
Truncate(buf) == <<>>

\* flush() on the buffer buf: the buffer it leaves and the payloads it emits.
Flushed(buf) ==
  IF Len(buf) > 0
  THEN [buffer |-> Truncate(buf), payloads |-> <<FrozenCopy(buf)>>]
  ELSE [buffer |-> buf, payloads |-> <<>>]

\* A push that checks the threshold after every single metric.
RECURSIVE Pushed_PerItem(_, _)
Pushed_PerItem(buf, metrics) ==
  IF metrics = <<>> THEN [buffer |-> buf, payloads |-> <<>>]
  ELSE LET appended == Append(buf, ImmutableCopy(Head(metrics)))
           now == IF AtCapacity(appended) THEN Flushed(appended)
                  ELSE [buffer |-> appended, payloads |-> <<>>]
           rest == Pushed_PerItem(now.buffer, Tail(metrics))
       IN  [buffer |-> rest.buffer, payloads |-> now.payloads \o rest.payloads]

\* push(metrics) on the buffer buf.
Pushed(buf, metrics) ==
  LET appended == buf \o ImmutableMetrics(metrics) IN
  IF AtCapacity(appended) THEN Flushed(appended)
  ELSE [buffer |-> appended, payloads |-> <<>>]

\* The events of a call that has emitted the given payloads.
Events(payloads) == [k \in 1..Len(payloads) |-> DataEvent(payloads[k])]

\* stream.push(metrics), with n metrics.
Push(n) ==
  /\ nPushed + n <= MaxPushed
  /\ LET out == Pushed(buffer, NewMetrics(n)) IN
       /\ stream' = Stream(out.buffer, received \o out.payloads, nPushed + n,
                           cleared, singlesOnly /\ n = 1,
                           originals \o [j \in 1..KeptOf(n) |-> 100],
                           nested \o [j \in 1..KeptOf(n) |-> "bytes"])
       /\ obs' = Obs("push", "ok", NoErr, NoErr, Events(out.payloads), <<>>)
  /\ UNCHANGED <<agentVars, configVars, collectorVars>>

\* stream.flush()
Flush ==
  /\ LET out == Flushed(buffer) IN
       /\ stream' = Stream(out.buffer, received \o out.payloads, nPushed, cleared, FALSE,
                           originals, nested)
       /\ obs' = Obs("flush", "ok", NoErr, NoErr, Events(out.payloads), <<>>)
  /\ UNCHANGED <<agentVars, configVars, collectorVars>>

\* A clear() that is a flush().
Clear_Flushes ==
  /\ LET out == Flushed(buffer) IN
       /\ stream' = Stream(out.buffer, received \o out.payloads, nPushed, cleared, FALSE,
                           originals, nested)
       /\ obs' = Obs("clear", "ok", NoErr, NoErr, Events(out.payloads), <<>>)
  /\ UNCHANGED <<agentVars, configVars, collectorVars>>

\* stream.clear()
Clear ==
  /\ stream' = Stream(Truncate(buffer), received, nPushed,
                      cleared \cup {buffer[k].id : k \in 1..Len(buffer)}, FALSE,
                      originals, nested)
  /\ obs' = Obs("clear", "ok", NoErr, NoErr, <<>>, <<>>)
  /\ UNCHANGED <<agentVars, configVars, collectorVars>>

\* `m.value = v`, on a metric object m the caller has pushed and kept.
AssignValue(id, v) ==
  /\ id \in 1..Len(originals)
  /\ v # originals[id]
  /\ stream' = Stream(buffer, received, nPushed, cleared, singlesOnly,
                      [originals EXCEPT ![id] = v], nested)
  /\ obs' = Obs("assign.value", "ok", NoErr, NoErr, <<>>, << <<id, v>> >>)
  /\ UNCHANGED <<agentVars, configVars, collectorVars>>

\* `m.metadata.unit = u`, on a metric object m the caller has pushed and kept.
AssignMetadata(id, u) ==
  /\ id \in 1..Len(nested)
  /\ u # nested[id]
  /\ stream' = Stream(buffer, received, nPushed, cleared, singlesOnly,
                      originals, [nested EXCEPT ![id] = u])
  /\ obs' = Obs("assign.metadata", "ok", NoErr, NoErr, <<>>, << <<id, u>> >>)
  /\ UNCHANGED <<agentVars, configVars, collectorVars>>

StreamNext ==
  \/ \E n \in 0..MaxBatch : Push(n)
  \/ Flush
  \/ Clear
  \/ \E id \in 1..MaxKept, v \in Values : AssignValue(id, v)
  \/ \E id \in 1..MaxKept, u \in Units : AssignMetadata(id, u)

StreamSpec == StreamInit /\ [][StreamNext]_vars

----------------------------------------------------------------------------
\* MetricsStream with a 'data' listener that calls back into the stream.
\* emit() runs the listener synchronously, inside flush(), between the copy
\* of the buffer and `this.buffer.length = 0`.  A plan lists what the
\* listener does at its successive invocations: it pushes one new metric or
\* it calls flush(); once the plan is used up it only keeps the payload.

Plans ==
  UNION { [1..k -> {"push", "flush"}] : k \in 0..MaxReentry }

\* The metric object a listener pushes, n metrics having been pushed before.
ListenerMetric(n) == [id |-> n + 1, value |-> 100, metadata |-> n + 1]

RECURSIVE FlushedWith(_, _, _), Handled(_, _, _), PushedWith(_, _, _, _)

\* flush() on the buffer buf: the payload is copied and emitted, the listener
\* runs, and then the buffer, as the listener has left it, is emptied.
FlushedWith(buf, plan, n) ==
  IF Len(buf) > 0
  THEN LET inner == Handled(buf, plan, n) IN
       [buffer |-> Truncate(inner.buffer),
        payloads |-> <<FrozenCopy(buf)>> \o inner.payloads,
        plan |-> inner.plan, n |-> inner.n]
  ELSE [buffer |-> buf, payloads |-> <<>>, plan |-> plan, n |-> n]

\* One invocation of the listener, the buffer being buf.
Handled(buf, plan, n) ==
  IF plan = <<>> THEN [buffer |-> buf, payloads |-> <<>>, plan |-> plan, n |-> n]
  ELSE IF Head(plan) = "flush" THEN FlushedWith(buf, Tail(plan), n)
  ELSE PushedWith(buf, <<ListenerMetric(n)>>, Tail(plan), n + 1)

\* push(metrics) on the buffer buf.
PushedWith(buf, metrics, plan, n) ==
  LET appended == buf \o ImmutableMetrics(metrics) IN
  IF AtCapacity(appended) THEN FlushedWith(appended, plan, n)
  ELSE [buffer |-> appended, payloads |-> <<>>, plan |-> plan, n |-> n]

\* stream.push(metrics), with n metrics, called from outside the listener.
ReentrantPush(n, plan) ==
  /\ LET out == PushedWith(buffer, NewMetrics(n), plan, nPushed + n) IN
       /\ out.n <= MaxPushed
       /\ out.plan = <<>>
       /\ stream' = Stream(out.buffer, received \o out.payloads, out.n,
                           cleared, FALSE, originals, nested)
       /\ obs' = Obs("push", "ok", NoErr, NoErr, Events(out.payloads), plan)
  /\ UNCHANGED <<agentVars, configVars, collectorVars>>

\* stream.flush(), called from outside the listener.
ReentrantFlush(plan) ==
  /\ LET out == FlushedWith(buffer, plan, nPushed) IN
       /\ out.n <= MaxPushed
       /\ out.plan = <<>>
       /\ stream' = Stream(out.buffer, received \o out.payloads, out.n,
                           cleared, FALSE, originals, nested)
       /\ obs' = Obs("flush", "ok", NoErr, NoErr, Events(out.payloads), plan)
  /\ UNCHANGED <<agentVars, configVars, collectorVars>>

ReentrantNext ==
  \/ \E n \in 0..MaxBatch, plan \in Plans : ReentrantPush(n, plan)
  \/ \E plan \in Plans : ReentrantFlush(plan)
  \/ Clear

ReentrantSpec == StreamInit /\ [][ReentrantNext]_vars

----------------------------------------------------------------------------
\* The collectors of the repository: MemoryCollector
\* (src/dist/collectors/MemoryCollector.js), CpuCollector (src/src/index.ts,
\* from line 8 on) and EventLoopCollector
\* (src/src/collectors/EventLoopCollector.ts), one instance of each, called
\* directly.  Their start, stop and collect are async functions without an
\* await: each call runs to its end in one step.

memory == instances.memory

cpu == instances.cpu

eventloop == instances.eventloop

\* The armed timers of setInterval in EventLoopCollector.start.
checkTimers == instances.timers

clock == instances.clock

Kinds == {"memory", "cpu", "eventloop"}

\* `new Config({ maxMemorySnapshots: n, eventLoopThreshold: 1 })`, handed to
\* the three constructors.
CollectorInit ==
  /\ AgentIdle
  /\ StreamIdle
  /\ CollectorsIdle
  /\ \E n \in 1..MaxSnapshots :
       configuration =
         Configuration([maxMemorySnapshots |-> n, eventLoopThreshold |-> 1],
                       ConstructedConfig([maxMemorySnapshots |-> n,
                                          eventLoopThreshold |-> 1]), <<>>)
  /\ obs = Obs("new", "ok", NoErr, NoErr, <<>>, <<>>)

\* What a call on a collector did: op is "c.start", "c.stop", "c.collect" or
\* "c.check" (the check timer), the first entry of the log names the
\* collector, the others are the metrics returned.
CollectorObs(op, kind, res, err, metrics) ==
  Obs(op, res, err, NoErr, <<>>, << <<"collector", kind>> >> \o metrics)

\* A start() that never returns early.
AlreadyRunning_Never(c) == FALSE

\* `if (this.isRunning) return;` in start()
AlreadyRunning(c) == c.isRunning

\* A stop() that always returns early.
AlreadyStopped_Always(c) == TRUE

\* `if (!this.isRunning) return;` in stop()
AlreadyStopped(c) == ~c.isRunning

\* A collect() that does not look at the flag.
NotStarted_Never(c) == FALSE

\* `if (!this.isRunning)` in collect()
NotStarted(c) == ~c.isRunning

\* `throw new Error('Collector must be started before collecting metrics')`
NotStartedError(kind) == Err(kind, NotStartedMsg)

\* The heap sizes process.memoryUsage() may report.
HeapUsed == {1000, 300000}

\* MemoryCollector.start()
MemoryCollectorStart ==
  /\ IF AlreadyRunning(memory)
     THEN /\ instances' = instances
          /\ obs' = CollectorObs("c.start", "memory", "noop", NoErr, <<>>)
     ELSE /\ instances' = [instances EXCEPT !.memory =
                             [isRunning |-> TRUE, snapshots |-> <<>>]]
          /\ obs' = CollectorObs("c.start", "memory", "ok", NoErr, <<>>)
  /\ UNCHANGED <<agentVars, configVars, streamVars>>

\* MemoryCollector.stop()
MemoryCollectorStop ==
  /\ IF AlreadyStopped(memory)
     THEN /\ instances' = instances
          /\ obs' = CollectorObs("c.stop", "memory", "noop", NoErr, <<>>)
     ELSE /\ instances' = [instances EXCEPT !.memory =
                             [isRunning |-> FALSE, snapshots |-> <<>>]]
          /\ obs' = CollectorObs("c.stop", "memory", "ok", NoErr, <<>>)
  /\ UNCHANGED <<agentVars, configVars, streamVars>>

\* A history that is never cut.
Snapshot_Unbounded(snapshots, heapUsed) == Append(snapshots, heapUsed)

\* `this.snapshots.push(heapUsed); if (length > maxMemorySnapshots) shift()`
Snapshot(snapshots, heapUsed) ==
  LET pushed == Append(snapshots, heapUsed) IN
  IF Len(pushed) > config[1].fields.maxMemorySnapshots THEN Tail(pushed) ELSE pushed

\* calculateGrowthRate(): the total growth over the last five snapshots and
\* the number of steps it is divided by.
GrowthRate(snapshots) ==
  IF Len(snapshots) < 2 THEN [total |-> 0, steps |-> 1]
  ELSE LET recent == IF Len(snapshots) > 5
                     THEN SubSeq(snapshots, Len(snapshots) - 4, Len(snapshots))
                     ELSE snapshots
       IN  [total |-> recent[Len(recent)] - recent[1], steps |-> Len(recent) - 1]

\* determineMemoryStatus(growthRate): `growthRate > 1024 * 100`
MemoryStatus(rate) ==
  IF rate.total > 1024 * 100 * rate.steps THEN "warning" ELSE "normal"

\* MemoryCollector.collect(); a metric is <<name, value, metadata>>.
MemoryCollectorCollect(heapUsed) ==
  /\ IF NotStarted(memory)
     THEN /\ instances' = instances
          /\ obs' = CollectorObs("c.collect", "memory", "throw",
                                 NotStartedError("memory"), <<>>)
     ELSE /\ clock < MaxClock
          /\ LET kept == Snapshot(memory.snapshots, heapUsed) IN
               /\ instances' = [instances EXCEPT !.memory.snapshots = kept,
                                                 !.clock = clock + 1]
               /\ obs' = CollectorObs("c.collect", "memory", "ok", NoErr,
                          << <<"memory.heapUsed", heapUsed, MemoryStatus(GrowthRate(kept))>>,
                             <<"memory.heapTotal", "bytes", "bytes">>,
                             <<"memory.rss", "bytes", "bytes">>,
                             <<"memory.growthRate", GrowthRate(kept), Len(kept)>> >>)
  /\ UNCHANGED <<agentVars, configVars, streamVars>>

\* CpuCollector.start()
CpuCollectorStart ==
  /\ IF AlreadyRunning(cpu)
     THEN /\ instances' = instances
          /\ obs' = CollectorObs("c.start", "cpu", "noop", NoErr, <<>>)
     ELSE /\ clock < MaxClock
          /\ instances' = [instances EXCEPT
                             !.cpu = [isRunning |-> TRUE, lastUsage |-> <<clock + 1>>,
                                      lastTimestamp |-> <<clock + 1>>],
                             !.clock = clock + 1]
          /\ obs' = CollectorObs("c.start", "cpu", "ok", NoErr, <<>>)
  /\ UNCHANGED <<agentVars, configVars, streamVars>>

\* CpuCollector.stop()
CpuCollectorStop ==
  /\ IF AlreadyStopped(cpu)
     THEN /\ instances' = instances
          /\ obs' = CollectorObs("c.stop", "cpu", "noop", NoErr, <<>>)
     ELSE /\ instances' = [instances EXCEPT
                             !.cpu = [isRunning |-> FALSE, lastUsage |-> <<>>,
                                      lastTimestamp |-> <<>>]]
          /\ obs' = CollectorObs("c.stop", "cpu", "ok", NoErr, <<>>)
  /\ UNCHANGED <<agentVars, configVars, streamVars>>

\* CpuCollector.collect(): the two percentages are computed from the process's
\* CPU times since the baseline and clamped to 0..100.
CpuCollectorCollect ==
  /\ IF NotStarted(cpu) \/ cpu.lastUsage = <<>> \/ cpu.lastTimestamp = <<>>
     THEN /\ instances' = instances
          /\ obs' = CollectorObs("c.collect", "cpu", "throw", NotStartedError("cpu"), <<>>)
     ELSE /\ clock < MaxClock
          /\ instances' = [instances EXCEPT !.cpu.lastUsage = <<clock + 1>>,
                                            !.cpu.lastTimestamp = <<clock + 1>>,
                                            !.clock = clock + 1]
          /\ obs' = CollectorObs("c.collect", "cpu", "ok", NoErr,
                       << <<"cpu.user", "percent", config[1].fields.cpuProfilingDuration>>,
                          <<"cpu.system", "percent", config[1].fields.cpuProfilingDuration>> >>)
  /\ UNCHANGED <<agentVars, configVars, streamVars>>

\* EventLoopCollector.start()
EventLoopCollectorStart ==
  /\ IF AlreadyRunning(eventloop)
     THEN /\ instances' = instances
          /\ obs' = CollectorObs("c.start", "eventloop", "noop", NoErr, <<>>)
     ELSE /\ clock < MaxClock
          /\ instances' = [instances EXCEPT
                             !.eventloop = [isRunning |-> TRUE, lastLoopTime |-> clock + 1,
                                            checkInterval |-> instances.timerSeq + 1],
                             !.timers = checkTimers \cup {instances.timerSeq + 1},
                             !.timerSeq = instances.timerSeq + 1,
                             !.clock = clock + 1]
          /\ obs' = CollectorObs("c.start", "eventloop", "ok", NoErr, <<>>)
  /\ UNCHANGED <<agentVars, configVars, streamVars>>

\* EventLoopCollector.stop()
EventLoopCollectorStop ==
  /\ IF AlreadyStopped(eventloop)
     THEN /\ instances' = instances
          /\ obs' = CollectorObs("c.stop", "eventloop", "noop", NoErr, <<>>)
     ELSE /\ instances' = [instances EXCEPT
                             !.eventloop.isRunning = FALSE,
                             !.eventloop.checkInterval = 0,
                             !.timers = IF eventloop.checkInterval # 0
                                        THEN checkTimers \ {eventloop.checkInterval}
                                        ELSE checkTimers]
          /\ obs' = CollectorObs("c.stop", "eventloop", "ok", NoErr, <<>>)
  /\ UNCHANGED <<agentVars, configVars, streamVars>>

\* EventLoopCollector.collect()
EventLoopCollectorCollect ==
  /\ IF NotStarted(eventloop)
     THEN /\ instances' = instances
          /\ obs' = CollectorObs("c.collect", "eventloop", "throw",
                                 NotStartedError("eventloop"), <<>>)
     ELSE /\ clock < MaxClock
          /\ LET lag == (clock + 1) - eventloop.lastLoopTime IN
               /\ instances' = [instances EXCEPT !.eventloop.lastLoopTime = clock + 1,
                                                 !.clock = clock + 1]
               /\ obs' = CollectorObs("c.collect", "eventloop", "ok", NoErr,
                            << <<"eventloop.lag", lag,
                                 IF lag > config[1].fields.eventLoopThreshold
                                 THEN "warning" ELSE "normal">> >>)
  /\ UNCHANGED <<agentVars, configVars, streamVars>>

\* The check timer t fires: `() => { this.lastLoopTime = Date.now(); }`
CheckInterval(t) ==
  /\ t \in checkTimers
  /\ clock < MaxClock
  /\ instances' = [instances EXCEPT !.eventloop.lastLoopTime = clock + 1,
                                    !.clock = clock + 1]
  /\ obs' = CollectorObs("c.check", "eventloop", "ok", NoErr, <<>>)
  /\ UNCHANGED <<agentVars, configVars, streamVars>>

CollectorNext ==
  \/ MemoryCollectorStart
  \/ MemoryCollectorStop
  \/ \E heapUsed \in HeapUsed : MemoryCollectorCollect(heapUsed)
  \/ CpuCollectorStart
  \/ CpuCollectorStop
  \/ CpuCollectorCollect
  \/ EventLoopCollectorStart
  \/ EventLoopCollectorStop
  \/ EventLoopCollectorCollect
  \/ \E t \in 1..MaxClock : CheckInterval(t)

CollectorSpec == CollectorInit /\ [][CollectorNext]_vars

----------------------------------------------------------------------------------------------------------------------------------------
\* Properties of the agent's lifecycle and of the collection cycle.

InLog(log, e) == \E k \in 1..Len(log) : log[k] = e

\* Everything but obs.
state == <<agentVars, configVars, streamVars, collectorVars>>

\* C1 (all-or-nothing start): when a start() call has finished with a failure
\* of some collector's start(), the running flag is false and no collection
\* timer is armed (so no cycle can fire).
C1_FailedStartLeavesNothingArmed ==
  (StartReturned /\ obs.res = "throw") => (~isRunning /\ timers = {})

\* C2 (running-flag invariant): the flag turns true only at the end of a
\* start() in which every registered collector's start() has completed
\* successfully, and turns false again only at the end of a stop() that has
\* cancelled the timer and has called stop() on every registered collector.
C2_RunningFlagTransitions ==
  [][ /\ (~isRunning /\ isRunning') =>
           /\ obs'.op \in {"start", "start.resume"} /\ obs'.res = "ok"
           /\ \A k \in 1..Len(collectors') :
                InLog(obs'.log, <<"started", collectors'[k]>>)
      /\ (isRunning /\ ~isRunning') =>
           /\ obs'.op \in {"stop", "stop.resume"} /\ obs'.res = "ok"
           /\ collectionInterval' \notin timers'
           /\ \A k \in 1..Len(collectors') :
                InLog(obs'.log, <<"stop", collectors'[k]>>) ]_vars

\* C3, as claimed: the error a failed start() surfaces to its caller is the
\* very error the failing collector raised.
C3_StartSurfacesTriggeringError ==
  (StartReturned /\ obs.res = "throw") => obs.err = obs.cause

\* C3, amended: the error a failed start() surfaces to its caller is a new
\* Error of the agent with the message 'Start failed', whatever error the
\* failing collector raised; the collector's error is not passed on.
C3_StartSurfacesStartFailed ==
  (StartReturned /\ obs.res = "throw") =>
     /\ obs.err = Err("Agent", "Start failed")
     /\ obs.cause.src \in Names
     /\ obs.err # obs.cause

C3_Witness ==
  StartReturned /\ obs.res = "throw" /\ obs.cause.msg = "init failed"

C5_StopIdempotent ==
  [][ (~isRunning /\ obs'.op = "stop") =>
        (obs'.res = "noop" /\ obs'.err = NoErr /\ ~isRunning' /\ UNCHANGED state) ]_vars

C5_Witness ==
  /\ obs.op = "stop" /\ obs.res = "noop"
  /\ ~isRunning /\ timerSeq > 0 /\ Len(collectors) = 2

\* The effects of a stop() that has called stop() on the first n collectors
\* and has seen the first m of these calls complete.
StopLog(n, m) ==
  << <<"clearInterval", "timer">> >>
  \o [k \in 1..(n + m) |->
        IF k % 2 = 1 THEN <<"stop", collectors[(k + 1) \div 2]>>
                     ELSE <<"stopped", collectors[k \div 2]>>]

\* C6 (stop ordering): a stop() on a running agent first cancels the timer,
\* then calls stop() on the collectors one at a time in registration order,
\* each after the one before has completed, and sets the flag to false only
\* after the last one has completed.
C6_StopOrdering ==
  /\ \A c \in InFlight : c.kind = "stop" => c.log = StopLog(c.i, c.i - 1)
  /\ (obs.op = "stop" /\ obs.res # "noop") => collectionInterval \notin timers
  /\ (StopReturned /\ obs.res = "ok") =>
        /\ obs.log = Append(StopLog(Len(collectors), Len(collectors)),
                            <<"isRunning", "false">>)
        /\ ~isRunning

C6_Witness ==
  StopReturned /\ obs.res = "ok" /\ Len(collectors) = 2 /\ obs.op = "stop.resume"

\* C7 (cancellation): once stop() has cancelled the timer, no collection
\* cycle begins until a later start() has succeeded.
C7_NoCycleAfterCancel == obs.op = "tick" => ~cancelled

\* The collection cycles in flight.
CyclesInFlight ==
  BagCardinality([c \in {d \in InFlight : d.kind = "cycle"} |-> CopiesIn(c, calls)])

\* C8 (no overlapping cycles): at most one collection cycle is in flight.
C8_NoOverlappingCycles == CyclesInFlight <= 1

\* C9 (cycle failure isolation): a cycle in which a collector's collect()
\* has failed publishes, when it ends, exactly one event: an 'error' event
\* whose payload is that collector's error.  It publishes no 'metrics' event.
C9_CycleFailureIsolation ==
  [][ \A c \in InFlight :
        (c.kind = "cycle" /\ ~c.pending.ok /\ CopiesIn(c, calls') < CopiesIn(c, calls))
        => /\ obs'.emitted = << [ch |-> "error", batch |-> <<>>, err |-> c.pending.err] >>
           /\ c.pending.err.src = collectors[c.i] ]_vars

C9_Witness ==
  /\ obs.op = "cycle.resume" /\ obs.res = "error"
  /\ Len(collectors) = 2
  /\ obs.cause = Err(collectors[2], "Collection failed")
  /\ obs.emitted = << [ch |-> "error", batch |-> <<>>, err |-> obs.cause] >>

CycleErrored == obs.op \in {"tick", "cycle.resume"} /\ obs.res = "error"

\* C10 (a collection error does not halt the agent): the end of a cycle in
\* error changes neither the running flag nor the timers nor any collector's
\* state; a cycle that ends without error publishes a 'metrics' batch; and
\* after a cycle has ended in error, while a timer is armed the next cycle
\* begins, and every cycle that has begun ends.
C10_ErrorDoesNotHalt ==
  /\ [][ CycleErrored' =>
          UNCHANGED <<isRunning, timers, collectionInterval, cRunning, collectors>> ]_vars
  /\ [](CycleEnded /\ obs.res = "ok" =>
          Len(obs.emitted) = 1 /\ obs.emitted[1].ch = "metrics")
  /\ \A n \in 1..(MaxTicks - 1) :
        (CycleErrored /\ nTicks = n) ~> (nTicks > n \/ timers = {})
  /\ \A n \in 1..MaxTicks :
        (obs.op = "tick" /\ nTicks = n) ~> (CyclesInFlight = 0)

C10_Witness ==
  /\ CycleErrored /\ obs.cause.msg = "Collection failed"
  /\ isRunning /\ collectionInterval \in timers
  /\ Len(collectors) = 2 /\ \A k \in 1..2 : cRunning[collectors[k]]
  /\ nTicks < MaxTicks

\* The batches of a cycle's log, one after the other.
RECURSIVE Concat(_)
Concat(log) ==
  IF log = <<>> THEN <<>> ELSE log[1][2] \o Concat(Tail(log))

\* The collectors of a cycle's log, in the order they were asked.
Asked(log) == [k \in 1..Len(log) |-> log[k][1]]

\* C11 (batch ordering): a cycle that ends without error publishes exactly one
\* 'metrics' event; its payload is the concatenation of what each collector's
\* collect() returned, the collectors taken in registration order and each
\* collector's metrics in the order it returned them, nothing added, dropped
\* or duplicated.
C11_BatchOrdering ==
  /\ \A c \in InFlight :
        c.kind = "cycle" =>
          /\ Asked(c.log) = SubSeq(collectors, 1, c.i - 1)
          /\ c.metrics = Concat(c.log)
  /\ (CycleEnded /\ obs.res = "ok") =>
        /\ Asked(obs.log) = collectors
        /\ obs.emitted = << [ch |-> "metrics", batch |-> Concat(obs.log),
                             err |-> NoErr] >>

C11_Witness ==
  /\ CycleEnded /\ obs.res = "ok"
  /\ collectors = <<"b", "a">>
  /\ obs.emitted[1].batch = << <<"b", 1>>, <<"b", 2>>, <<"a", 1>>, <<"a", 2>> >>

\* C12 (empty batch): a cycle that ends without error and has gathered no
\* metric (no collector is registered, or every collector returned an empty
\* sequence) still publishes one 'metrics' event, with an empty batch.
C12_EmptyBatchPublished ==
  (CycleEnded /\ obs.res = "ok" /\ \A k \in 1..Len(obs.log) : obs.log[k][2] = <<>>)
    => (Len(obs.emitted) = 1 /\ obs.emitted[1].ch = "metrics"
        /\ obs.emitted[1].batch = <<>>)

C12_Witness ==
  /\ CycleEnded /\ obs.res = "ok" /\ obs.emitted[1].batch = <<>>
  /\ Len(obs.log) = 2

\* The names the registry holds.
RegisteredNames == {collectors[k] : k \in 1..Len(collectors)}

\* C13 (duplicate registration): a call registerCollector(name, c) fails with
\* the error 'Collector already exists' whenever the name is already
\* registered, and then leaves the registry as it was (same object under the
\* name, same order); otherwise it succeeds, puts the collector at the end
\* of the registration order and touches no other entry.
C13_DuplicateRegistration ==
  [][ obs'.op = "register" =>
        \A name \in Names, collector \in Objects :
          RegisterCollector(name, collector) =>
            IF name \in RegisteredNames
            THEN /\ obs'.res = "throw"
                 /\ obs'.err = Err("Agent", "Collector already exists")
                 /\ collectors' = collectors
                 /\ registered' = registered
            ELSE /\ obs'.res = "ok"
                 /\ collectors' = Append(collectors, name)
                 /\ registered'[name] = collector
                 /\ \A n \in Names \ {name} : registered'[n] = registered[n] ]_vars

C13_Witness ==
  /\ obs.op = "register" /\ obs.res = "throw"
  /\ obs.err = Err("Agent", "Collector already exists")
  /\ collectors = <<"b", "a">>
  /\ \A n \in Names : registered[n] = 1

\* C14, as claimed: the error a failed stop() surfaces to its caller is the
\* very error the failing collector's stop() raised.
C14_StopSurfacesCollectorError ==
  (StopReturned /\ obs.res = "throw") => obs.err = obs.cause

\* C14, amended: when a collector's stop() fails during stop(), the call
\* fails to its caller with a new Error of the agent with the message
\* 'Stop failed'; the collector's own error is not passed on, and no event
\* is published.
C14_StopSurfacesStopFailed ==
  (StopReturned /\ obs.res = "throw") =>
     /\ obs.err = Err("Agent", "Stop failed")
     /\ obs.cause.src \in Names /\ obs.cause.msg \in StopErrMsgs
     /\ obs.err # obs.cause
     /\ obs.emitted = <<>>

C14_Witness ==
  /\ StopReturned /\ obs.res = "throw" /\ obs.cause.msg = "cleanup failed"
  /\ Len(collectors) = 2 /\ obs.cause.src = collectors[2]

\* C15 (best-effort stop): when a stop() has failed because some collector's
\* stop() failed, every registered collector has still received a stop()
\* call in that stop().
C15_BestEffortStop ==
  (StopReturned /\ obs.res = "throw") =>
     \A k \in 1..Len(collectors) : InLog(obs.log, <<"stop", collectors[k]>>)

\* The Config value an agent constructed with opts is to hold: the given
\* fields, the defaults for the others, immutable.
Expected(opts) ==
  [frozen |-> TRUE, fields |-> [f \in Fields |-> Coalesce(opts, f)]]

\* C16 (getConfig): the value getConfig() returns is immutable and its seven
\* fields equal the configuration the agent was constructed with; an attempt
\* to assign a field of it is rejected (a TypeError, or ignored) and changes
\* neither the returned value nor the agent's active configuration.
C16_GetConfigSnapshot ==
  /\ [](Len(config) = 1 => config[1] = Expected(ctorArg))
  /\ [](Len(snapshot) = 1 => snapshot[1] = Expected(ctorArg))
  /\ [][ obs'.op = "assign" =>
           /\ obs'.res \in {"throw", "ignored"}
           /\ snapshot' = snapshot
           /\ config' = config ]_vars

C16_Witness ==
  /\ obs.op = "assign" /\ obs.res = "throw"
  /\ obs.log[1][1] = "sampleInterval"
  /\ DOMAIN ctorArg = {"sampleInterval", "debugMode"}
  /\ obs.log[1][2] # ctorArg.sampleInterval
  /\ snapshot[1].fields.sampleInterval = ctorArg.sampleInterval
  /\ snapshot[1].fields.metricsBufferSize = 1000

\* C17 (buffer bound): after any push, flush or clear call has returned, the
\* buffer holds fewer metrics than the capacity, whatever the capacity (>= 1)
\* and the size of the pushed batch.
C17_BufferBound == Len(buffer) < Capacity

C17_Witness ==
  /\ obs.op = "push" /\ Capacity = 3 /\ buffer = <<>>
  /\ Len(obs.emitted) = 1 /\ Len(obs.emitted[1].batch) = 4

\* The ids of a sequence of metrics.
Ids(metrics) == [k \in 1..Len(metrics) |-> metrics[k].id]

\* The ids from a to b, in order.
FromTo(a, b) == [k \in 1..(b - a + 1) |-> a + k - 1]

\* C18 (auto-flush at capacity): while a stream with capacity C has only
\* seen push calls of one metric each, a push emits a 'data' event exactly
\* when it is the C-th (2C-th, ...) one; the event carries the C metrics
\* pushed since the last event, in push order, and leaves the buffer empty;
\* the other pushes emit nothing and keep their metrics buffered.
C18_AutoFlushAtCapacity ==
  singlesOnly =>
    /\ Len(received) = nPushed \div Capacity
    /\ \A j \in 1..Len(received) :
          Ids(View(received[j])) = FromTo((j - 1) * Capacity + 1, j * Capacity)
    /\ Ids(buffer) = FromTo((nPushed \div Capacity) * Capacity + 1, nPushed)
    /\ obs.op = "push" =>
          obs.emitted = IF nPushed % Capacity = 0
                        THEN << [ch |-> "data", err |-> NoErr,
                                 batch |-> View(received[Len(received)])] >>
                        ELSE <<>>

C18_Witness ==
  /\ singlesOnly /\ Capacity = 3 /\ nPushed = 3 /\ buffer = <<>>
  /\ Len(obs.emitted) = 1 /\ Ids(obs.emitted[1].batch) = <<1, 2, 3>>

\* What the holder of a payload reads from it after the step.
ViewAfter(payload) == IF payload.shared THEN buffer' ELSE payload.items

\* C19 (flush): flush() on a non-empty buffer publishes exactly one 'data'
\* event whose payload is the whole buffer in insertion order, then empties
\* the buffer; flush() on an empty buffer publishes nothing and changes
\* nothing; and no later push, flush or clear alters a published payload.
C19_Flush ==
  /\ [][ obs'.op = "flush" =>
           IF buffer # <<>>
           THEN /\ obs'.emitted = << [ch |-> "data", batch |-> buffer, err |-> NoErr] >>
                /\ Len(received') = Len(received) + 1
                /\ ViewAfter(received'[Len(received')]) = buffer
                /\ buffer' = <<>>
           ELSE /\ obs'.emitted = <<>>
                /\ UNCHANGED <<buffer, received>> ]_vars
  /\ [][ \A k \in 1..Len(received) :
           /\ k <= Len(received')
           /\ ViewAfter(received'[k]) = View(received[k]) ]_vars

C19_Witness ==
  /\ obs.op = "flush" /\ Len(obs.emitted) = 1
  /\ Len(received) = 2 /\ buffer = <<>>
  /\ Ids(View(received[1])) = <<1, 2, 3>>
  /\ Ids(View(received[2])) = <<4, 5>> /\ Ids(obs.emitted[1].batch) = <<4, 5>>

\* C20 (clear): clear() empties the buffer and publishes nothing, whatever
\* the buffer held; a metric that was in the buffer at a clear() is carried
\* by no 'data' event, before or after; so a flush() right after a clear()
\* publishes nothing.
C20_Clear ==
  /\ [][ obs'.op = "clear" =>
           /\ buffer' = <<>>
           /\ obs'.emitted = <<>>
           /\ received' = received ]_vars
  /\ [][ (obs.op = "clear" /\ obs'.op = "flush") =>
           (obs'.emitted = <<>> /\ received' = received) ]_vars
  /\ [](\A j \in 1..Len(received) : \A k \in 1..Len(View(received[j])) :
          View(received[j])[k].id \notin cleared)
  /\ [](\A k \in 1..Len(buffer) : buffer[k].id \notin cleared)

C20_Witness ==
  /\ obs.op = "flush" /\ obs.emitted = <<>>
  /\ nPushed = 1 /\ cleared = {1} /\ received = <<>> /\ buffer = <<>>

\* What the holder of a payload reads from the metrics it carries.
ReadAll(payload) == [k \in 1..Len(View(payload)) |-> Read(View(payload)[k])]

\* C21 (copy isolation): an assignment of a new value to the value field of
\* a metric object the caller has pushed changes no metric carried by a
\* 'data' event emitted before.
C21_CopyIsolation ==
  [][ obs'.op = "assign.value" =>
        /\ Len(received') = Len(received)
        /\ \A j \in 1..Len(received) : ReadAll(received[j])' = ReadAll(received[j]) ]_vars

C21_Witness ==
  /\ obs.op = "assign.value" /\ obs.log = << <<1, 200>> >>
  /\ originals[1] = 200
  /\ Len(received) = 1 /\ buffer = <<>>
  /\ ReadAll(received[1])[1] = [id |-> 1, value |-> 100, unit |-> "bytes"]

\* What a reader of the buffer finds in it.
ReadBuffer == [k \in 1..Len(buffer) |-> Read(buffer[k])]

\* C22 (deep copy): an assignment to any part of a metric object the caller
\* has pushed, its value field or an entry of its metadata object, changes
\* neither the buffered copy nor a batch emitted from it.
C22_DeepCopy ==
  [][ obs'.op \in {"assign.value", "assign.metadata"} =>
        /\ ReadBuffer' = ReadBuffer
        /\ \A j \in 1..Len(received) : ReadAll(received[j])' = ReadAll(received[j]) ]_vars

\* C23 (one flush per push call): a push(batch) call with M metrics buffered
\* and N pushed emits at most one 'data' event; it emits one exactly when
\* M + N >= capacity, and that event carries all M + N metrics in order and
\* leaves the buffer empty; otherwise the M + N metrics stay buffered.
C23_OneFlushPerPush ==
  [][ obs'.op = "push" =>
        LET all == Ids(buffer) \o FromTo(nPushed + 1, nPushed') IN
        IF Len(all) >= Capacity
        THEN /\ Len(obs'.emitted) = 1
             /\ Ids(obs'.emitted[1].batch) = all
             /\ Len(received') = Len(received) + 1
             /\ Ids(ViewAfter(received'[Len(received')])) = all
             /\ buffer' = <<>>
        ELSE /\ obs'.emitted = <<>>
             /\ received' = received
             /\ Ids(buffer') = all ]_vars

C23_Witness ==
  /\ obs.op = "push" /\ Capacity = 1 /\ nPushed = 2
  /\ Len(obs.emitted) = 1 /\ Ids(obs.emitted[1].batch) = <<1, 2>>
  /\ Len(received) = 1 /\ buffer = <<>>

\* The last step was a call of the given method on the given collector.
CalledOn(o, op, kind) == o.op = op /\ o.log[1] = <<"collector", kind>>

\* C24 (collect before start): collect() on a MemoryCollector, CpuCollector
\* or EventLoopCollector that is not running, never started or started and
\* then stopped, fails with the message 'Collector must be started before
\* collecting metrics' and changes no state of any collector.
C24_CollectBeforeStart ==
  [][ \A kind \in Kinds :
        (CalledOn(obs', "c.collect", kind) /\ ~instances[kind].isRunning) =>
          /\ obs'.res = "throw"
          /\ obs'.err.msg = "Collector must be started before collecting metrics"
          /\ instances' = instances ]_vars

C24_Witness ==
  /\ CalledOn(obs, "c.collect", "eventloop") /\ obs.res = "throw"
  /\ ~eventloop.isRunning /\ instances.timerSeq > 0
  /\ ~memory.isRunning /\ cpu.isRunning

\* C25 (collector start is idempotent): start() on a collector that is
\* running is a no-op: the flag stays true and the snapshot history, the CPU
\* baseline and the check timer are what they were; no second check timer is
\* created.
C25_CollectorStartIdempotent ==
  [][ \A kind \in Kinds :
        (CalledOn(obs', "c.start", kind) /\ instances[kind].isRunning) =>
          /\ obs'.res = "noop"
          /\ instances'[kind].isRunning
          /\ instances' = instances ]_vars

C25_Witness ==
  /\ CalledOn(obs, "c.start", "eventloop") /\ obs.res = "noop"
  /\ eventloop.isRunning /\ checkTimers = {eventloop.checkInterval}
  /\ memory.isRunning /\ memory.snapshots # <<>>
  /\ cpu.isRunning /\ cpu.lastUsage # <<>>

\* C26 (collector stop is idempotent and releases the state): stop() on a
\* collector that is not running is a no-op; stop() on a running collector
\* sets the flag to false and empties the MemoryCollector's snapshot
\* history, sets the CpuCollector's baseline to null, cancels the
\* EventLoopCollector's check timer and sets it to undefined; the check timer
\* is armed exactly when the EventLoopCollector is running.
C26_CollectorStop ==
  /\ [][ \A kind \in Kinds :
           CalledOn(obs', "c.stop", kind) =>
             IF ~instances[kind].isRunning
             THEN obs'.res = "noop" /\ instances' = instances
             ELSE /\ obs'.res = "ok"
                  /\ ~instances'[kind].isRunning
                  /\ kind = "memory" => memory' = [isRunning |-> FALSE, snapshots |-> <<>>]
                  /\ kind = "cpu" => cpu' = [isRunning |-> FALSE, lastUsage |-> <<>>,
                                             lastTimestamp |-> <<>>]
                  /\ kind = "eventloop" =>
                       /\ eventloop'.checkInterval = 0
                       /\ eventloop.checkInterval \notin checkTimers' ]_vars
  /\ [](eventloop.isRunning <=> eventloop.checkInterval # 0)
  /\ [](checkTimers = IF eventloop.isRunning THEN {eventloop.checkInterval} ELSE {})

C26_Witness ==
  /\ CalledOn(obs, "c.stop", "eventloop") /\ obs.res = "ok"
  /\ ~eventloop.isRunning /\ eventloop.checkInterval = 0 /\ checkTimers = {}
  /\ instances.timerSeq = 2

\* `v > 0` on numbers
Above0(v) == v # NaN /\ v > 0

\* The value a field is constructed from: the caller's, or else the default.
Given(f) ==
  IF f \in DOMAIN ctorArg THEN ctorArg[f]
  ELSE [sampleInterval |-> 5000, maxMemorySnapshots |-> 10,
        cpuProfilingDuration |-> 500, eventLoopThreshold |-> 100,
        metricsBufferSize |-> 1000, enabled |-> TRUE, debugMode |-> FALSE][f]

\* C27 (validation): the construction of a Config succeeds if and only if
\* sampleInterval, maxMemorySnapshots, cpuProfilingDuration,
\* eventLoopThreshold and metricsBufferSize, the defaults taken for the
\* omitted ones, are all greater than 0; otherwise it fails with '<field>
\* must be greater than 0' for a field that is not, and produces no Config.
C27_ConfigValidation ==
  LET valid == \A k \in 1..Len(NumFields) : Above0(Given(NumFields[k])) IN
  /\ (Len(config) = 1) <=> valid
  /\ Len(config) = 1 => \A f \in Fields : config[1].fields[f] = Given(f)
  /\ obs.op = "new" =>
       IF valid THEN obs.res = "ok"
       ELSE /\ obs.res = "throw"
            /\ \E k \in 1..Len(NumFields) :
                 /\ ~Above0(Given(NumFields[k]))
                 /\ obs.err.msg = NumFields[k] \o " must be greater than 0"

\* The effects of a start() that has called start() on the first n collectors
\* and has seen the first m of these calls complete.
StartLog(n, m) ==
  [k \in 1..(n + m) |->
     IF k % 2 = 1 THEN <<"start", collectors[(k + 1) \div 2]>>
                  ELSE <<"started", collectors[k \div 2]>>]

\* C28 (start ordering, fail-fast): a start() on an agent that is not running
\* calls start() on the collectors one at a time in registration order, each
\* after the one before has completed successfully; it arms the timer only
\* after the last one has completed; and after the first failing start() it
\* calls no further collector.
C28_StartOrdering ==
  /\ \A c \in InFlight : c.kind = "start" => c.log = StartLog(c.i, c.i - 1)
  /\ (StartReturned /\ obs.res = "ok") =>
        obs.log = StartLog(Len(collectors), Len(collectors))
                    \o << <<"isRunning", "true">>, <<"setInterval", "timer">> >>
  /\ (StartReturned /\ obs.res = "throw") =>
        \E k \in 1..Len(collectors) :
          /\ obs.cause.src = collectors[k]
          /\ obs.log = Append(StartLog(k, k - 1), <<"isRunning", "false">>)

C28_Witness ==
  /\ StartReturned /\ obs.res = "throw"
  /\ collectors = <<"b", "a">> /\ obs.cause.src = "b"
  /\ obs.log = << <<"start", "b">>, <<"isRunning", "false">> >>
  /\ ~cRunning["a"]

\* C29 (no rollback): the step in which a start() fails calls stop() on no
\* collector, so the collectors that were running stay running, the ones
\* this start() has started included, and it leaves the agent not running;
\* a stop() called next is then a no-op that stops no collector either.
C29_NoRollback ==
  /\ [][ (StartReturned' /\ obs'.res = "throw") =>
           /\ cRunning' = cRunning
           /\ ~isRunning'
           /\ \A n \in Names : ~InLog(obs'.log, <<"stop", n>>) ]_vars
  /\ [][ (StartReturned /\ obs.res = "throw" /\ obs'.op = "stop") =>
           (obs'.res = "noop" /\ cRunning' = cRunning) ]_vars

C29_Witness ==
  /\ obs.op = "stop" /\ obs.res = "noop" /\ ~isRunning
  /\ collectors = <<"a", "b">> /\ cRunning["a"] /\ ~cRunning["b"]
  /\ timerSeq = 0 /\ calls = EmptyBag

\* The calls of the agent to its collectors that have not completed yet.
CollectorCallsInFlight ==
  BagCardinality([c \in {d \in InFlight : d.pending.slow} |-> CopiesIn(c, calls)])

\* C30 (no concurrent invocation): at most one call of the agent to a
\* collector's start(), stop() or collect() is in flight.
C30_NoConcurrentCollectorCalls == CollectorCallsInFlight <= 1

\* this.config.maxMemorySnapshots
MaxMemorySnapshots == config[1].fields.maxMemorySnapshots

\* C31 (snapshot bound): the snapshot history of the MemoryCollector never
\* holds more than maxMemorySnapshots entries; a start() empties it, every
\* successful collect() adds its reading at the end and, when the history was
\* full, discards the oldest entry, so that the history holds the last
\* min(successful collects since the start, maxMemorySnapshots) readings;
\* the 'snapshots' metadata of memory.growthRate is its length.
C31_SnapshotBound ==
  /\ [](Len(memory.snapshots) <= MaxMemorySnapshots)
  /\ [][ (CalledOn(obs', "c.start", "memory") /\ obs'.res = "ok") =>
           memory'.snapshots = <<>> ]_vars
  /\ [][ (CalledOn(obs', "c.collect", "memory") /\ obs'.res = "ok") =>
           LET reading == obs'.log[2][2]
               before == memory.snapshots
               after == memory'.snapshots IN
           /\ after = IF Len(before) < MaxMemorySnapshots
                      THEN Append(before, reading)
                      ELSE Append(Tail(before), reading)
           /\ obs'.log[5][1] = "memory.growthRate"
           /\ obs'.log[5][3] = Len(after)
           /\ Len(after) = IF Len(before) + 1 < MaxMemorySnapshots
                           THEN Len(before) + 1 ELSE MaxMemorySnapshots ]_vars

C31_Witness ==
  /\ CalledOn(obs, "c.collect", "memory") /\ obs.res = "ok"
  /\ MaxMemorySnapshots = 2 /\ clock = 4
  /\ ~cpu.isRunning /\ instances.timerSeq = 0
  /\ memory.snapshots = <<1000, 300000>>
  /\ obs.log[5] = <<"memory.growthRate", [total |-> 299000, steps |-> 1], 2>>

\* C32 (flag/timer consistency): whenever no start() and no stop() call is
\* in progress, the running flag is true if and only if a collection timer
\* is armed, also after a stop() that has failed.
C32_FlagTimerConsistency ==
  NoLifecycleCallInFlight => (isRunning <=> timers # {})

\* C33 (a single timer): at most one collection timer is armed at any time,
\* also when a second start() is called while the first one is awaiting its
\* collectors; after a successful stop() no timer is armed.
C33_AtMostOneTimer ==
  /\ Cardinality(timers) <= 1
  /\ (StopReturned /\ obs.res = "ok") => timers = {}

\* The cycle calls that the step has suspended at a collect().
CollectsIssued(before, after) ==
  {d \in BagToSet(after) : d.kind = "cycle" /\ CopiesIn(d, after) > CopiesIn(d, before)}

\* C34 (a cycle collects from live collectors only), with no registration
\* while the agent is running: a cycle never calls collect() on a collector
\* that a stop() call, in progress or just returned, has already stopped, and
\* a cycle publishes no event in the step after a stop() has returned.
C34_CycleCollectsFromLiveOnly ==
  /\ [][ \A d \in CollectsIssued(calls, calls') :
           /\ \A c \in InFlight :
                c.kind = "stop" => ~InLog(c.log, <<"stopped", collectors[d.i]>>)
           /\ StopReturned => ~InLog(obs.log, <<"stopped", collectors[d.i]>>) ]_vars
  /\ [][ (StopReturned /\ obs.res = "ok" /\ obs'.op = "cycle.resume") =>
           obs'.emitted = <<>> ]_vars

\* C35 (one event per cycle): a cycle that has ended has published exactly
\* one event, a 'metrics' event or an 'error' event, and an 'error' event
\* carries an error raised by a collector's collect(), also when a
\* subscriber's 'metrics' handler throws.
C35_OneEventPerCycle ==
  CycleEnded =>
    /\ Len(obs.emitted) = 1
    /\ \A k \in 1..Len(obs.emitted) :
          obs.emitted[k].ch = "error" => obs.emitted[k].err.src \in Names

\* The ids the 'data' listener has been handed, payload after payload.
RECURSIVE Delivered(_)
Delivered(payloads) ==
  IF payloads = <<>> THEN <<>>
  ELSE Ids(View(Head(payloads))) \o Delivered(Tail(payloads))

\* The ids pushed so far, in push order, without those clear() has discarded.
PushedNotCleared == SelectSeq(FromTo(1, nPushed), LAMBDA id : id \notin cleared)

\* C36 (stream conservation): after any sequence of push, flush and clear
\* calls made from outside the 'data' handlers, the emitted payloads in
\* emission order followed by the buffer are the pushed metrics in push
\* order without the metrics clear() has discarded: none is lost, duplicated
\* or reordered.
C36_Conservation ==
  /\ Delivered(received) \o Ids(buffer) = PushedNotCleared
  /\ \A k \in 1..Len(received) : ~received[k].shared

C36_Witness ==
  /\ Len(received) = 2 /\ Delivered(received) = <<1, 2, 4>>
  /\ cleared = {3}
  /\ Ids(buffer) = <<5>>
  /\ obs.op = "push"

\* The places of an id among the delivered and the buffered metrics.
Carried(id) ==
  LET all == Delivered(received) \o Ids(buffer) IN {k \in 1..Len(all) : all[k] = id}

\* C37 (re-entrant delivery is safe): when a 'data' handler calls push() or
\* flush() on the stream while a flush is delivering, every pushed metric
\* that clear() has not discarded is carried by exactly one 'data' event or
\* is in the buffer, once.
C37_ReentrantDeliverySafe ==
  \A id \in 1..nPushed : id \notin cleared => Cardinality(Carried(id)) = 1

\* The agent as a failed stop() leaves it: the timer is cleared, the flag is
\* still set, and no call is in progress.
AfterFailedStop == isRunning /\ timers = {} /\ NoLifecycleCallInFlight

====
